---- MODULE Spec2Model ----
(***************************************************************************)
(* Model of serverless-ruby-package (src/index.js): the plugin's           *)
(* beforePackage hook, which whitelists the bundled gems in the host's     *)
(* package include list, and nativeLinuxBundle, which builds the gems in a *)
(* temporary docker container.                                             *)
(*                                                                         *)
(* Every execSync call is one step of the model: the external command is   *)
(* issued and either returns or throws.  Strings are the strings the code  *)
(* builds.  The JavaScript value false of the string-or-false options      *)
(* (withGroups, withoutGroups, dockerImage) is written "", which is falsy  *)
(* as well; these options are only ever tested for truthiness.             *)
(***************************************************************************)
EXTENDS Integers, Sequences, FiniteSets, TLC

VARIABLES
  runtime,      \* serverless.service.provider.runtime
  provider,     \* serverless.service.provider.name
  custom,       \* serverless.service.custom.rubyPackage (the keys the user set)
  env,          \* process.env (the variables that are set)
  lockedGems,   \* what `bundle exec ruby` reports for the project when it succeeds
  include,      \* serverless.service.package.include
  exclude,      \* serverless.service.package.exclude
  excludeDevDependencies, \* serverless.service.package.excludeDevDependencies
  vendorExists, \* whether <servicePath>/vendor exists on the host
  bundleExists, \* whether <servicePath>/.bundle exists on the host
  pc,           \* position of the running hook invocation ("idle" between runs)
  gems,         \* const gems of beforePackage
  cmds,         \* docker commands issued by the current invocation, in order
  copied,       \* container paths copied back to the host by the current invocation
  pending,      \* exception in flight inside the try block ("none" if none)
  thrown,       \* exception that left beforePackage ("none" if it returned)
  log,          \* messages logged by the current invocation
  runs,         \* number of hook invocations started
  include0,     \* include list when the current invocation started
  exclude0,     \* exclude list when the current invocation started
  excludeDev0,  \* excludeDevDependencies when the current invocation started
  prevRules,    \* <<rules>> of the invocation before, if it returned; else <<>>
  completed,    \* number of earlier invocations that returned normally
  owner,        \* docker: the run whose container holds the container name (0: none)
  racers        \* concurrent runs of nativeLinuxBundle sharing the container name

vars == <<runtime, provider, custom, env, lockedGems, include, exclude,
          excludeDevDependencies, vendorExists, bundleExists, pc, gems, cmds,
          copied, pending, thrown, log, runs, include0, exclude0, excludeDev0,
          prevRules, completed, owner, racers>>

service == <<runtime, provider, custom, env, lockedGems>>
package == <<include, exclude, excludeDevDependencies>>
hostDirs == <<vendorExists, bundleExists>>
snapshot == <<include0, exclude0, excludeDev0, prevRules, completed>>
daemon == <<owner, racers>>

----------------------------------------------------------------------------
(* Bounds *)

MaxRuns == 2   \* hook invocations on the same serverless object
MaxGems == 2   \* packages in an inventory
Racers == 2    \* concurrent runs sharing one container name

----------------------------------------------------------------------------
(* Configuration *)

servicePath == "/srv/app"

\* An environment value is a sequence of one-character strings.
UpperAlpha == <<"A","B","C","D","E","F","G","H","I","J","K","L","M",
                "N","O","P","Q","R","S","T","U","V","W","X","Y","Z">>
LowerAlpha == <<"a","b","c","d","e","f","g","h","i","j","k","l","m",
                "n","o","p","q","r","s","t","u","v","w","x","y","z">>

LowerChar(c) ==
  IF \E i \in 1..26 : UpperAlpha[i] = c
  THEN LowerAlpha[CHOOSE i \in 1..26 : UpperAlpha[i] = c]
  ELSE c

LowerCase(s) == [i \in 1..Len(s) |-> LowerChar(s[i])]

\* The same test without the i flag.
CrossCompileOverride_CaseSensitive(value) ==
  value \in { <<"y">>, <<"y","e","s">>, <<"t","r","u","e">>, <<"1">>, <<"o","n">> }

\* /^(?:y|yes|true|1|on)$/i.test(value)
CrossCompileOverride(value) ==
  LowerCase(value) \in { <<"y">>, <<"y","e","s">>, <<"t","r","u","e">>,
                         <<"1">>, <<"o","n">> }

Defaults ==
  [ alwaysCrossCompileExtensions |-> TRUE,
    debug |-> "SRP_DEBUG" \in DOMAIN env,
    gemfilePath |-> servicePath \o "/Gemfile",
    containerName |-> "serverless-ruby-package.packaged-gems",
    containerPath |-> "/var/task",
    withoutGroups |-> "test development deploy",
    withGroups |-> "",
    standalone |-> FALSE,
    dockerImage |-> "",
    excludeGemTests |-> TRUE ]

\* Object.assign(defaults, custom.rubyPackage || {})
Assign(defaults, given) ==
  [k \in DOMAIN defaults \cup DOMAIN given |->
     IF k \in DOMAIN given THEN given[k] ELSE defaults[k]]

\* get config()
Config ==
  LET config == Assign(Defaults, custom) IN
  IF "CROSS_COMPILE_EXTENSIONS" \in DOMAIN env
  THEN [config EXCEPT !.alwaysCrossCompileExtensions =
                         CrossCompileOverride(env["CROSS_COMPILE_EXTENSIONS"])]
  ELSE config

Truthy(v) == v # ""

----------------------------------------------------------------------------
(* Runtime profile *)

rubyVersion == IF runtime = "ruby2.5" THEN "2.5.0" ELSE "2.7.0"

\* The API version taken to be the package version for every runtime.
extensionApiVersion_NoStatic == IF runtime = "ruby2.5" THEN "2.5.0" ELSE "2.7.0"

extensionApiVersion == IF runtime = "ruby2.5" THEN "2.5.0-static" ELSE "2.7.0"

gemRoot == "vendor/bundle/ruby/" \o rubyVersion

\* The extension directory placed beside the versioned gem root, not under it.
extensionDir_Unversioned ==
  "vendor/bundle/ruby/extensions/x86_64-linux/" \o extensionApiVersion

extensionDir == gemRoot \o "/extensions/x86_64-linux/" \o extensionApiVersion

\* Line 170: this.config is a fresh object at every access, so it has a
\* tempContainer only if custom.rubyPackage gives one; the assignment of line
\* 189 goes to an object that is dropped.
ContainerCached == "tempContainer" \in DOMAIN Config

\* tempContainer()
tempContainer ==
  LET config == Config IN
  IF ContainerCached THEN config.tempContainer
  ELSE
  [ name |-> config.containerName,
    path |-> config.containerPath,
    image |-> IF Truthy(config.dockerImage) THEN config.dockerImage
              ELSE IF runtime = "ruby2.5" THEN "lambci/lambda:build-ruby2.5"
              ELSE "lambci/lambda:build-ruby2.7" ]

----------------------------------------------------------------------------
(* Inventory: what identifyGemsScript prints, sorted by name *)

Json == [ extensions |-> TRUE, name |-> "json-2.3.0",
          path |-> "/gems/json-2.3.0",
          gemspec |-> "/specifications/json-2.3.0.gemspec" ]
Nokogiri == [ extensions |-> TRUE, name |-> "nokogiri-1.11.0",
              path |-> "/gems/nokogiri-1.11.0",
              gemspec |-> "/specifications/nokogiri-1.11.0.gemspec" ]
Rake == [ extensions |-> FALSE, name |-> "rake-13.0.1",
          path |-> "/gems/rake-13.0.1",
          gemspec |-> "/specifications/rake-13.0.1.gemspec" ]

\* The gems a Gemfile.lock may name, in name order.
GemPool == <<Json, Nokogiri, Rake>>

\* details.sort_by{|x| x[:name]}: the chosen gems in name order.
Inventories ==
  { [i \in 1..Len(ix) |-> GemPool[ix[i]]] :
      ix \in { s \in UNION { [1..n -> 1..Len(GemPool)] : n \in 0..MaxGems } :
                 \A i \in 1..Len(s), j \in 1..Len(s) : i < j => s[i] < s[j] } }

----------------------------------------------------------------------------
(* Rule emission: lines 121-166 of beforePackage *)

\* The negated rules pushed before the gem's include rule.
GemRules_NegatedFirst(gem) ==
  <<"!" \o gemRoot \o gem.path \o "/.git/**">>
  \o <<gemRoot \o gem.path \o "/**">>
  \o (IF gem.extensions THEN <<extensionDir \o "/" \o gem.name \o "/**">> ELSE <<>>)
  \o (IF Config.excludeGemTests
      THEN << "!" \o gemRoot \o gem.path \o "/test/**",
              "!" \o gemRoot \o gem.path \o "/spec/**" >>
      ELSE <<>>)
  \o (IF ~Config.standalone THEN <<gemRoot \o gem.gemspec>> ELSE <<>>)

\* The gemspec pushed whatever the mode.
GemRules_AlwaysGemspec(gem) ==
  <<gemRoot \o gem.path \o "/**">>
  \o (IF gem.extensions THEN <<extensionDir \o "/" \o gem.name \o "/**">> ELSE <<>>)
  \o <<"!" \o gemRoot \o gem.path \o "/.git/**">>
  \o (IF Config.excludeGemTests
      THEN << "!" \o gemRoot \o gem.path \o "/test/**",
              "!" \o gemRoot \o gem.path \o "/spec/**" >>
      ELSE <<>>)
  \o <<gemRoot \o gem.gemspec>>

\* The .git exclusion pushed together with the test exclusions.
GemRules_GitWithTests(gem) ==
  <<gemRoot \o gem.path \o "/**">>
  \o (IF gem.extensions THEN <<extensionDir \o "/" \o gem.name \o "/**">> ELSE <<>>)
  \o (IF Config.excludeGemTests
      THEN << "!" \o gemRoot \o gem.path \o "/.git/**",
              "!" \o gemRoot \o gem.path \o "/test/**",
              "!" \o gemRoot \o gem.path \o "/spec/**" >>
      ELSE <<>>)
  \o (IF ~Config.standalone THEN <<gemRoot \o gem.gemspec>> ELSE <<>>)

\* The rules one iteration of gems.forEach pushes.
GemRules(gem) ==
  <<gemRoot \o gem.path \o "/**">>
  \o (IF gem.extensions THEN <<extensionDir \o "/" \o gem.name \o "/**">> ELSE <<>>)
  \o <<"!" \o gemRoot \o gem.path \o "/.git/**">>
  \o (IF Config.excludeGemTests
      THEN << "!" \o gemRoot \o gem.path \o "/test/**",
              "!" \o gemRoot \o gem.path \o "/spec/**" >>
      ELSE <<>>)
  \o (IF ~Config.standalone THEN <<gemRoot \o gem.gemspec>> ELSE <<>>)

RECURSIVE ForEachGem(_)
ForEachGem(g) == IF g = <<>> THEN <<>> ELSE GemRules(Head(g)) \o ForEachGem(Tail(g))

\* .bundle/config pushed only if the include list does not hold it yet.
WhitelistRules_OnlyIfAbsent(g) ==
  (IF ~Config.standalone /\ ~(\E i \in 1..Len(include) : include[i] = ".bundle/config")
   THEN <<".bundle/config">> ELSE <<>>)
  \o ForEachGem(g)

\* What lines 128-159 push onto package.include.
WhitelistRules(g) ==
  (IF ~Config.standalone THEN <<".bundle/config">> ELSE <<>>) \o ForEachGem(g)

RECURSIVE JoinNames(_)
JoinNames(g) ==
  IF g = <<>> THEN ""
  ELSE IF Len(g) = 1 THEN g[1].name
  ELSE g[1].name \o " " \o JoinNames(Tail(g))

RECURSIVE DebugList(_)
DebugList(fps) ==
  IF fps = <<>> THEN <<>> ELSE <<"--- " \o Head(fps)>> \o DebugList(Tail(fps))

\* The messages lines 121-166 log, given the include list they end with.
PackagingLog(g, inc) ==
  <<IF Len(g) < 10 THEN "Packaging gems: " \o JoinNames(g)
    ELSE "Packaging " \o ToString(Len(g)) \o " gems">>
  \o (IF Config.debug
      THEN <<IF ~Config.standalone THEN "Compiling bundle in bundler/setup mode"
             ELSE "Compiling bundle in standalone mode">>
      ELSE <<>>)
  \o (IF Config.debug
      THEN <<"Filepaths whitelisted in the packaging">> \o DebugList(inc)
      ELSE <<>>)

\* The runtime check alone, without the provider check.
warnOnUnsupportedRuntime_ProviderSilent ==
  (IF Config.debug
   THEN <<"platform: linux", "provider: " \o provider, "runtime: " \o runtime>>
   ELSE <<>>)
  \o (IF runtime \notin {"ruby2.5", "ruby2.7"}
      THEN <<"WARNING: serverless-ruby-package has only been tested with the ruby2.5 and the ruby2.7 runtimes. It may not work with "
             \o runtime \o ", but bug reports are welcome.">>
      ELSE <<>>)

\* warnOnUnsupportedRuntime()
warnOnUnsupportedRuntime ==
  (IF Config.debug
   THEN <<"platform: linux", "provider: " \o provider, "runtime: " \o runtime>>
   ELSE <<>>)
  \o (IF provider # "aws"
      THEN <<"WARNING: serverless-ruby-package has only been tested with the AWS provider. It may not work with "
             \o provider \o ", but bug reports are welcome.">>
      ELSE IF runtime \notin {"ruby2.5", "ruby2.7"}
      THEN <<"WARNING: serverless-ruby-package has only been tested with the ruby2.5 and the ruby2.7 runtimes. It may not work with "
             \o runtime \o ", but bug reports are welcome.">>
      ELSE <<>>)

----------------------------------------------------------------------------
(* Docker commands of nativeLinuxBundle, as the strings given to execSync *)

localPath == servicePath

InContainer(file) ==
  LET container == tempContainer IN
  container.name \o ":" \o container.path \o "/" \o file

CreateCmd ==
  LET container == tempContainer IN
  "docker create -v " \o container.path \o " --name " \o container.name
  \o " " \o container.image \o " /bin/true"

CpVendorInCmd == "docker cp " \o localPath \o "/vendor " \o InContainer("vendor")
CpGemfileCmd == "docker cp " \o Config.gemfilePath \o " " \o InContainer("Gemfile")
CpLockfileCmd ==
  "docker cp " \o Config.gemfilePath \o ".lock " \o InContainer("Gemfile.lock")

dockerRun ==
  LET container == tempContainer IN
  "docker run --rm --volumes-from " \o container.name \o " " \o container.image

BundleConfigCmd(key, value) ==
  dockerRun \o " bundle config set --local " \o key \o " '" \o value \o "'"

InstallCmd == dockerRun \o " bundle install"

CpVendorOutCmd == "docker cp " \o InContainer("vendor") \o " " \o localPath
CpBundleOutCmd == "docker cp " \o InContainer(".bundle") \o " " \o localPath

RmCmd == "docker rm " \o tempContainer.name

----------------------------------------------------------------------------
(* Initial state: a serverless object with the plugin constructed on it *)

Runtimes == {"ruby2.5", "ruby2.7", "ruby3.2"}
Providers == {"aws", "google"}

\* The non-default value a user may give each option in custom.rubyPackage.
Overrides ==
  [ alwaysCrossCompileExtensions |-> FALSE,
    withoutGroups |-> "",
    withGroups |-> "deploy",
    standalone |-> TRUE,
    excludeGemTests |-> FALSE ]

Customs == { [k \in keys |-> Overrides[k]] : keys \in SUBSET DOMAIN Overrides }

NoEnv == [k \in {} |-> <<>>]
Envs == { NoEnv,
          [CROSS_COMPILE_EXTENSIONS |-> <<"n","o">>],
          [CROSS_COMPILE_EXTENSIONS |-> <<"O","n">>] }

HostInclude == <<"handler.rb">>
HostExclude == <<"node_modules/**">>

\* No concurrent run has entered nativeLinuxBundle.
Waiting ==
  [r \in 1..Racers |-> [pc |-> "idle", pending |-> "none", thrown |-> "none", removed |-> 0]]

\* Every spelling of a lower-case word in upper and lower case.
RECURSIVE Spellings(_)
Spellings(word) ==
  IF word = <<>> THEN {<<>>}
  ELSE LET c == Head(word)
           up == IF \E i \in 1..26 : LowerAlpha[i] = c
                 THEN UpperAlpha[CHOOSE i \in 1..26 : LowerAlpha[i] = c]
                 ELSE c
       IN  { <<x>> \o rest : x \in {c, up}, rest \in Spellings(Tail(word)) }

\* Values of CROSS_COMPILE_EXTENSIONS: the words of the regex in every
\* spelling, and values the regex does not match.
OverrideValues ==
  Spellings(<<"y">>) \cup Spellings(<<"y","e","s">>) \cup Spellings(<<"t","r","u","e">>)
  \cup Spellings(<<"1">>) \cup Spellings(<<"o","n">>)
  \cup { <<"n","o">>, <<"0">>, <<"f","a","l","s","e">>, <<"o","f","f">>, <<>>,
         <<"y","e","s"," ">>, <<" ","o","n">>, <<"y","e">>, <<"y","e","s","s">>,
         <<"t","r","u">>, <<"1","1">>, <<"n">>, <<"o">> }

ConfigEnvs == {NoEnv} \cup { [CROSS_COMPILE_EXTENSIONS |-> v] : v \in OverrideValues }

\* What a user may say about cross-compilation in custom.rubyPackage.
CrossCompileCustoms ==
  { NoEnv, [alwaysCrossCompileExtensions |-> FALSE],
    [alwaysCrossCompileExtensions |-> TRUE] }

\* Options that shape the container and its commands.
ContainerOverrides ==
  [ dockerImage |-> "example/build-ruby:2.7",
    withGroups |-> "deploy",
    standalone |-> TRUE ]

ContainerCustoms ==
  { [k \in keys |-> ContainerOverrides[k]] : keys \in SUBSET DOMAIN ContainerOverrides }

\* The host package, the host directories and the hook before any invocation.
Fresh ==
  /\ include = HostInclude
  /\ exclude = HostExclude
  /\ excludeDevDependencies = TRUE
  /\ vendorExists = FALSE
  /\ bundleExists = FALSE
  /\ pc = "idle"
  /\ gems = <<>>
  /\ cmds = <<>>
  /\ copied = <<>>
  /\ pending = "none"
  /\ thrown = "none"
  /\ log = <<>>
  /\ runs = 0
  /\ include0 = HostInclude
  /\ exclude0 = HostExclude
  /\ excludeDev0 = TRUE
  /\ prevRules = <<>>
  /\ completed = 0
  /\ owner = 0

Init ==
  /\ runtime \in Runtimes
  /\ provider \in Providers
  /\ custom \in Customs
  /\ env \in Envs
  /\ lockedGems \in Inventories
  /\ Fresh
  /\ racers = Waiting

\* The configuration in breadth: every value of the environment override
\* against the user's setting, and the container options.
InitConfig ==
  /\ runtime \in {"ruby2.5", "ruby2.7"}
  /\ provider = "aws"
  /\ \/ env \in ConfigEnvs /\ custom \in CrossCompileCustoms
     \/ env \in Envs /\ custom \in ContainerCustoms
  /\ lockedGems = <<Nokogiri>>
  /\ Fresh
  /\ racers = Waiting

----------------------------------------------------------------------------
(* beforePackage *)

\* Lines 77-105: the hook starts, up to the call of `bundle exec ruby`.
BeforePackage ==
  /\ pc \in {"idle", "done"}
  /\ runs < MaxRuns
  /\ runs' = runs + 1
  /\ include0' = include
  /\ exclude0' = exclude
  /\ excludeDev0' = excludeDevDependencies
  /\ prevRules' = IF pc = "done" /\ thrown = "none"
                  THEN <<exclude \o SubSeq(include, Len(include0) + 1, Len(include))>>
                  ELSE <<>>
  /\ completed' = IF pc = "done" /\ thrown = "none" THEN completed + 1 ELSE completed
  /\ log' = warnOnUnsupportedRuntime
  /\ excludeDevDependencies' = FALSE
  /\ exclude' = <<"**">>
  /\ include' = IF Config.standalone
                THEN Append(include, "vendor/bundle/bundler/**")
                ELSE include
  /\ gems' = <<>>
  /\ cmds' = <<>>
  /\ copied' = <<>>
  /\ pending' = "none"
  /\ thrown' = "none"
  /\ pc' = "identifyGems"
  /\ UNCHANGED <<service, hostDirs, daemon>>

\* The include list replaced by the rules instead of extended by them.
Whitelist_Replace(g, logged) ==
  /\ include' = WhitelistRules(g)
  /\ log' = logged \o PackagingLog(g, include')
  /\ thrown' = "none"
  /\ pc' = "done"

\* Lines 121-166: the rules are pushed and beforePackage returns.
Whitelist(g, logged) ==
  /\ include' = include \o WhitelistRules(g)
  /\ log' = logged \o PackagingLog(g, include')
  /\ thrown' = "none"
  /\ pc' = "done"

\* Lines 194-201: nativeLinuxBundle up to the try block.
NativeLinuxBundleLog ==
  <<"Building gems with native extensions for linux">>
  \o (IF Config.debug
      THEN << "container name: " \o tempContainer.name,
              "docker image: " \o tempContainer.image >>
      ELSE <<>>)

\* The extension check of line 115, were it not commented out.
ShouldCrossCompile_IfExtensions(g) ==
  /\ Config.alwaysCrossCompileExtensions
  /\ \E i \in 1..Len(g) : g[i].extensions

\* Lines 115-116: whether nativeLinuxBundle is called.
ShouldCrossCompile(g) == Config.alwaysCrossCompileExtensions

\* Lines 107-118: the inventory is collected; the build starts or is skipped.
IdentifyGems ==
  /\ pc = "identifyGems"
  /\ \E outcome \in {"ok", "nonzero", "unparsable"} :
       IF outcome = "ok"
       THEN /\ gems' = lockedGems
            /\ IF ShouldCrossCompile(lockedGems)
               THEN /\ log' = log \o NativeLinuxBundleLog
                    /\ pc' = "create"
                    /\ UNCHANGED <<include, thrown>>
               ELSE Whitelist(lockedGems, log)
       ELSE /\ thrown' = IF outcome = "nonzero" THEN "bundle exec ruby" ELSE "JSON.parse"
            /\ pc' = "done"
            /\ UNCHANGED <<gems, include, log>>
  /\ UNCHANGED <<service, exclude, excludeDevDependencies, hostDirs, cmds, copied,
                 pending, runs, snapshot, daemon>>

----------------------------------------------------------------------------
(* nativeLinuxBundle: the try block, one step per execSync *)

\* A throw that leaves nativeLinuxBundle at once, as if outside the try block.
Throw_OutsideTry(command) ==
  /\ pc' = "done"
  /\ pending' = command
  /\ thrown' = command

\* execSync threw inside the try block: control passes to the finally block.
Throw(command) ==
  /\ pc' = "finally"
  /\ pending' = command
  /\ thrown' = thrown

\* execSync returned: the next statement of the try block runs.
Return(next) ==
  /\ pc' = next
  /\ pending' = pending
  /\ thrown' = thrown

\* execSync(command) at position `here`, followed by position `next`.
Exec(here, command, next) ==
  /\ pc = here
  /\ cmds' = Append(cmds, command)
  /\ \E ok \in BOOLEAN : IF ok THEN Return(next) ELSE Throw(command)

\* The group options passed over after `bundle config set --local clean`.
AfterClean_SkipGroups == IF Config.standalone THEN "configStandalone" ELSE "install"

\* The statement after `bundle config set --local clean` (lines 220-230).
AfterClean ==
  IF Truthy(Config.withGroups) THEN "configWith"
  ELSE IF Truthy(Config.withoutGroups) THEN "configWithout"
  ELSE IF Config.standalone THEN "configStandalone"
  ELSE "install"

AfterWith ==
  IF Truthy(Config.withoutGroups) THEN "configWithout"
  ELSE IF Config.standalone THEN "configStandalone"
  ELSE "install"

AfterWithout == IF Config.standalone THEN "configStandalone" ELSE "install"

\* The bundle configuration directory copied back whatever standalone says.
AfterVendorOut_Always == "copyBundleOut"

\* The statement after the vendor directory is copied back (lines 236-239).
AfterVendorOut == IF ~Config.standalone THEN "copyBundleOut" ELSE "finally"

sandboxFrame ==
  <<service, package, hostDirs, gems, copied, log, runs, snapshot, daemon>>

\* Line 204
DockerCreate ==
  /\ Exec("create", CreateCmd, "copyVendorIn")
  /\ UNCHANGED sandboxFrame

\* Lines 207-210: the shell runs docker cp only if the host has a vendor directory.
CopyVendorIn ==
  /\ IF vendorExists
     THEN Exec("copyVendorIn", CpVendorInCmd, "copyGemfile")
     ELSE /\ pc = "copyVendorIn"
          /\ cmds' = cmds
          /\ Return("copyGemfile")
  /\ UNCHANGED sandboxFrame

\* Line 211
CopyGemfile ==
  /\ Exec("copyGemfile", CpGemfileCmd, "copyLockfile")
  /\ UNCHANGED sandboxFrame

\* Line 212
CopyLockfile ==
  /\ Exec("copyLockfile", CpLockfileCmd, "configPath")
  /\ UNCHANGED sandboxFrame

\* Line 216
ConfigPath ==
  /\ Exec("configPath", BundleConfigCmd("path", "vendor/bundle"), "configDeployment")
  /\ UNCHANGED sandboxFrame

\* Line 217
ConfigDeployment ==
  /\ Exec("configDeployment", BundleConfigCmd("deployment", "true"), "configFrozen")
  /\ UNCHANGED sandboxFrame

\* Line 218
ConfigFrozen ==
  /\ Exec("configFrozen", BundleConfigCmd("frozen", "true"), "configClean")
  /\ UNCHANGED sandboxFrame

\* Line 219
ConfigClean ==
  /\ Exec("configClean", BundleConfigCmd("clean", "true"), AfterClean)
  /\ UNCHANGED sandboxFrame

\* Lines 220-222
ConfigWith ==
  /\ Exec("configWith", BundleConfigCmd("with", Config.withGroups), AfterWith)
  /\ UNCHANGED sandboxFrame

\* Lines 223-225
ConfigWithout ==
  /\ Exec("configWithout", BundleConfigCmd("without", Config.withoutGroups), AfterWithout)
  /\ UNCHANGED sandboxFrame

\* Lines 226-228
ConfigStandalone ==
  /\ Exec("configStandalone", BundleConfigCmd("standalone", "true"), "install")
  /\ UNCHANGED sandboxFrame

\* Lines 230-231
BundleInstall ==
  /\ Exec("install", InstallCmd, "copyVendorOut")
  /\ log' = IF Config.debug /\ pc' = "copyVendorOut"
            THEN Append(log, "bundle install output") ELSE log
  /\ UNCHANGED <<service, package, hostDirs, gems, copied, runs, snapshot, daemon>>

\* Line 234: a docker cp that fails may have written part of the directory.
CopyVendorOut ==
  /\ Exec("copyVendorOut", CpVendorOutCmd, AfterVendorOut)
  /\ IF pending' = pending
     THEN /\ vendorExists' = TRUE
          /\ copied' = Append(copied, "vendor")
     ELSE /\ vendorExists' \in {vendorExists, TRUE}
          /\ copied' = copied
  /\ UNCHANGED <<service, package, bundleExists, gems, log, runs, snapshot, daemon>>

\* Lines 236-238
CopyBundleOut ==
  /\ Exec("copyBundleOut", CpBundleOutCmd, "finally")
  /\ IF pending' = pending
     THEN /\ bundleExists' = TRUE
          /\ copied' = Append(copied, ".bundle")
     ELSE /\ bundleExists' \in {bundleExists, TRUE}
          /\ copied' = copied
  /\ UNCHANGED <<service, package, vendorExists, gems, log, runs, snapshot, daemon>>

\* What leaves a try/finally whose finally block ran execSync: an exception
\* thrown by the finally block replaces the one in flight.
Propagated(inFlight, finallyOk, finallyCmd) ==
  IF ~finallyOk THEN finallyCmd ELSE inFlight

\* Lines 239-241, and on a normal return the rest of beforePackage (121-166).
DockerRm ==
  /\ pc = "finally"
  /\ cmds' = Append(cmds, RmCmd)
  /\ pending' = pending
  /\ \E ok \in BOOLEAN :
       LET e == Propagated(pending, ok, RmCmd) IN
       IF e = "none"
       THEN Whitelist(gems, log)
       ELSE /\ thrown' = e
            /\ pc' = "done"
            /\ UNCHANGED <<include, log>>
  /\ UNCHANGED <<service, exclude, excludeDevDependencies, hostDirs, gems, copied,
                 runs, snapshot, daemon>>

Next ==
  \/ BeforePackage
  \/ IdentifyGems
  \/ DockerCreate
  \/ CopyVendorIn
  \/ CopyGemfile
  \/ CopyLockfile
  \/ ConfigPath
  \/ ConfigDeployment
  \/ ConfigFrozen
  \/ ConfigClean
  \/ ConfigWith
  \/ ConfigWithout
  \/ ConfigStandalone
  \/ BundleInstall
  \/ CopyVendorOut
  \/ CopyBundleOut
  \/ DockerRm

Spec == Init /\ [][Next]_vars

SpecConfig == InitConfig /\ [][Next]_vars

----------------------------------------------------------------------------
(* Concurrent runs: several serverless processes in nativeLinuxBundle with   *)
(* the same configuration, hence the same container name, on one docker      *)
(* daemon.  The daemon holds at most one container per name.                 *)

\* The command of each execSync of the try block.
CommandAt(pos) ==
  CASE pos = "copyVendorIn" -> CpVendorInCmd
    [] pos = "copyGemfile" -> CpGemfileCmd
    [] pos = "copyLockfile" -> CpLockfileCmd
    [] pos = "configPath" -> BundleConfigCmd("path", "vendor/bundle")
    [] pos = "configDeployment" -> BundleConfigCmd("deployment", "true")
    [] pos = "configFrozen" -> BundleConfigCmd("frozen", "true")
    [] pos = "configClean" -> BundleConfigCmd("clean", "true")
    [] pos = "configWith" -> BundleConfigCmd("with", Config.withGroups)
    [] pos = "configWithout" -> BundleConfigCmd("without", Config.withoutGroups)
    [] pos = "configStandalone" -> BundleConfigCmd("standalone", "true")
    [] pos = "install" -> InstallCmd
    [] pos = "copyVendorOut" -> CpVendorOutCmd
    [] pos = "copyBundleOut" -> CpBundleOutCmd

\* The statement that follows each execSync of the try block when it returns.
SuccessorOf(pos) ==
  CASE pos = "copyVendorIn" -> "copyGemfile"
    [] pos = "copyGemfile" -> "copyLockfile"
    [] pos = "copyLockfile" -> "configPath"
    [] pos = "configPath" -> "configDeployment"
    [] pos = "configDeployment" -> "configFrozen"
    [] pos = "configFrozen" -> "configClean"
    [] pos = "configClean" -> AfterClean
    [] pos = "configWith" -> AfterWith
    [] pos = "configWithout" -> AfterWithout
    [] pos = "configStandalone" -> "install"
    [] pos = "install" -> "copyVendorOut"
    [] pos = "copyVendorOut" -> AfterVendorOut
    [] pos = "copyBundleOut" -> "finally"

TryBlock ==
  { "copyVendorIn", "copyGemfile", "copyLockfile", "configPath", "configDeployment",
    "configFrozen", "configClean", "configWith", "configWithout", "configStandalone",
    "install", "copyVendorOut", "copyBundleOut" }

raceFrame ==
  <<service, package, gems, cmds, copied, pc, pending, thrown, log, runs, snapshot>>

\* Line 204 in run r: docker create fails when the name is taken.
RaceCreate(r) ==
  /\ racers[r].pc = "create"
  /\ \E ok \in (IF owner = 0 THEN BOOLEAN ELSE {FALSE}) :
       IF ok
       THEN /\ owner' = r
            /\ racers' = [racers EXCEPT ![r].pc = "copyVendorIn"]
       ELSE /\ owner' = owner
            /\ racers' = [racers EXCEPT ![r].pc = "finally", ![r].pending = CreateCmd]
  /\ UNCHANGED <<raceFrame, hostDirs>>

\* Lines 207-238 in run r: every docker cp and docker run names the container,
\* and fails when no container has the name.
RaceStep(r) ==
  LET here == racers[r].pc IN
  /\ here \in TryBlock
  /\ IF here = "copyVendorIn" /\ ~vendorExists
     THEN /\ racers' = [racers EXCEPT ![r].pc = SuccessorOf(here)]
          /\ UNCHANGED hostDirs
     ELSE \E ok \in (IF owner # 0 THEN BOOLEAN ELSE {FALSE}) :
            /\ racers' = IF ok
                         THEN [racers EXCEPT ![r].pc = SuccessorOf(here)]
                         ELSE [racers EXCEPT ![r].pc = "finally",
                                             ![r].pending = CommandAt(here)]
            /\ IF here = "copyVendorOut"
               THEN /\ vendorExists' \in (IF ok THEN {TRUE} ELSE {vendorExists, TRUE})
                    /\ bundleExists' = bundleExists
               ELSE IF here = "copyBundleOut"
               THEN /\ bundleExists' \in (IF ok THEN {TRUE} ELSE {bundleExists, TRUE})
                    /\ vendorExists' = vendorExists
               ELSE UNCHANGED hostDirs
  /\ owner' = owner
  /\ UNCHANGED raceFrame

\* Lines 239-241 in run r: docker rm removes the container that has the name,
\* whichever run created it.
RaceRm(r) ==
  /\ racers[r].pc = "finally"
  /\ \E ok \in (IF owner # 0 THEN BOOLEAN ELSE {FALSE}) :
       /\ owner' = IF ok THEN 0 ELSE owner
       /\ racers' = [racers EXCEPT
            ![r].pc = "done",
            ![r].thrown = Propagated(racers[r].pending, ok, RmCmd),
            ![r].removed = IF ok THEN owner ELSE 0]
  /\ UNCHANGED <<raceFrame, hostDirs>>

\* Every run has passed shouldCrossCompile and stands before line 204.
InitConc ==
  /\ runtime = "ruby2.7"
  /\ provider = "aws"
  /\ custom \in ContainerCustoms
  /\ env = NoEnv
  /\ lockedGems = <<Nokogiri>>
  /\ Fresh
  /\ racers = [r \in 1..Racers |-> [Waiting[r] EXCEPT !.pc = "create"]]

NextConc == \E r \in 1..Racers : RaceCreate(r) \/ RaceStep(r) \/ RaceRm(r)

SpecConc == InitConc /\ [][NextConc]_vars

----------------------------------------------------------------------------
(* Vocabulary of the properties *)

\* The commands of a build with the default container options, as the shell
\* receives them.
BuildImage ==
  IF runtime = "ruby2.5" THEN "lambci/lambda:build-ruby2.5" ELSE "lambci/lambda:build-ruby2.7"

InSandbox(arguments) ==
  "docker run --rm --volumes-from serverless-ruby-package.packaged-gems "
    \o BuildImage \o arguments

Provision ==
  IF runtime = "ruby2.5"
  THEN "docker create -v /var/task --name serverless-ruby-package.packaged-gems lambci/lambda:build-ruby2.5 /bin/true"
  ELSE "docker create -v /var/task --name serverless-ruby-package.packaged-gems lambci/lambda:build-ruby2.7 /bin/true"

Install ==
  IF runtime = "ruby2.5"
  THEN "docker run --rm --volumes-from serverless-ruby-package.packaged-gems lambci/lambda:build-ruby2.5 bundle install"
  ELSE "docker run --rm --volumes-from serverless-ruby-package.packaged-gems lambci/lambda:build-ruby2.7 bundle install"

Staging ==
  { "docker cp /srv/app/vendor serverless-ruby-package.packaged-gems:/var/task/vendor",
    "docker cp /srv/app/Gemfile serverless-ruby-package.packaged-gems:/var/task/Gemfile",
    "docker cp /srv/app/Gemfile.lock serverless-ruby-package.packaged-gems:/var/task/Gemfile.lock" }

RetrieveVendor ==
  "docker cp serverless-ruby-package.packaged-gems:/var/task/vendor /srv/app"

RetrieveBundle ==
  "docker cp serverless-ruby-package.packaged-gems:/var/task/.bundle /srv/app"

Teardown == "docker rm serverless-ruby-package.packaged-gems"

\* The hook invocation has ended, by returning or by throwing.
Ended == pc = "done"

\* The hook invocation has returned normally.
Completed == pc = "done" /\ thrown = "none"

\* docker create was issued by this invocation and returned.
CreateSucceeded == cmds # <<>> /\ cmds[1] = CreateCmd /\ pending # CreateCmd

\* The invocation ended with the error of the dependency tool.
InventoryFailed == pc = "done" /\ thrown \in {"bundle exec ruby", "JSON.parse"}

\* The invocation ended with an error thrown by a docker command.
SandboxFailed == pc = "done" /\ thrown \notin {"none", "bundle exec ruby", "JSON.parse"}

\* The rules this invocation pushed onto the include list.
Appended == SubSeq(include, Len(include0) + 1, Len(include))

\* The rules the host evaluates: the excludes, then the includes of this invocation.
RuleOutput == exclude \o Appended

----------------------------------------------------------------------------
(* C1..C5: teardown and error propagation *)

\* C1: in every invocation of nativeLinuxBundle whose docker create succeeded,
\* whichever later step fails or none, docker rm is issued exactly once, it is
\* the last docker command of the invocation, no error leaves the invocation
\* before it was issued, and docker create is issued exactly once.
C1_TeardownExactlyOnce ==
  LET create == Provision
      rm == Teardown
  IN  (cmds # <<>> /\ cmds[1] = create /\ pending # create) =>
        /\ \A i \in 1..Len(cmds) : cmds[i] = create => i = 1
        /\ \A i \in 1..Len(cmds) : cmds[i] = rm => i = Len(cmds)
        /\ (pc # "done") => thrown = "none"
        /\ (pc = "done") => cmds[Len(cmds)] = rm

\* An invocation ended with the installer's error after the container was
\* created, and docker rm had been issued.
C1_Witness ==
  /\ Ended
  /\ CreateSucceeded
  /\ thrown = InstallCmd
  /\ cmds[Len(cmds)] = RmCmd

\* C2: if a sandbox step failed with error E and docker rm fails as well, the
\* error that leaves the sandbox build and the packaging run is E.
C2_TeardownNeverMasks ==
  (Ended /\ pending # "none") => thrown = pending

\* C3: when docker create fails the run ends with the creation error and no
\* docker rm is issued for the container name.
C3_NoTeardownAfterFailedCreate ==
  LET create == CreateCmd
      rm == RmCmd
  IN  (pending = create) =>
        /\ \A i \in 1..Len(cmds) : cmds[i] # rm
        /\ Ended => thrown = create

\* C4: if the dependency tool fails the run ends before any mutation of the
\* host package (include and exclude as before the run) and no sandbox command
\* was issued.
C4_NoMutationOnInventoryFailure ==
  InventoryFailed =>
    /\ include = include0
    /\ exclude = exclude0
    /\ cmds = <<>>

\* C5: a run that ends with an error of the sandbox build has committed
\* nothing to the host package: include, exclude and excludeDevDependencies are
\* as before the run.
C5_NoPartialSuccess ==
  SandboxFailed =>
    /\ include = include0
    /\ exclude = exclude0
    /\ excludeDevDependencies = excludeDev0

----------------------------------------------------------------------------
(* C6..C8: the emitted rules *)

Has(seq, x) == \E i \in 1..Len(seq) : seq[i] = x

\* The elements of `sub` occur in `seq` in the order of `sub`.
RECURSIVE InOrder(_, _)
InOrder(sub, seq) ==
  IF sub = <<>> THEN TRUE
  ELSE IF seq = <<>> THEN FALSE
  ELSE IF Head(sub) = Head(seq) THEN InOrder(Tail(sub), Tail(seq))
  ELSE InOrder(sub, Tail(seq))

\* Scenario A: nokogiri-1.11.0 alone, ruby2.7, not standalone, tests excluded.
ScenarioA ==
  /\ gems = <<Nokogiri>>
  /\ runtime = "ruby2.7"
  /\ ~Config.standalone
  /\ Config.excludeGemTests

\* C6 as stated: in scenario A the rules contain, in this order, `**`, the gem
\* include, the extension include under vendor/bundle/ruby/extensions, the
\* negated .git, test and spec rules and the gemspec include.
C6_ScenarioA_AsStated ==
  (Completed /\ ScenarioA) =>
    InOrder(<< "**",
               "vendor/bundle/ruby/2.7.0/gems/nokogiri-1.11.0/**",
               "vendor/bundle/ruby/extensions/x86_64-linux/2.7.0/nokogiri-1.11.0/**",
               "!vendor/bundle/ruby/2.7.0/gems/nokogiri-1.11.0/.git/**",
               "!vendor/bundle/ruby/2.7.0/gems/nokogiri-1.11.0/test/**",
               "!vendor/bundle/ruby/2.7.0/gems/nokogiri-1.11.0/spec/**",
               "vendor/bundle/ruby/2.7.0/specifications/nokogiri-1.11.0.gemspec" >>,
            RuleOutput)

\* C6 as amended: in scenario A the rules contain, in this order, `**`, the gem
\* include, the extension include under vendor/bundle/ruby/2.7.0/extensions,
\* the negated .git, test and spec rules and the gemspec include.
C6_ScenarioA ==
  (Completed /\ ScenarioA) =>
    InOrder(<< "**",
               "vendor/bundle/ruby/2.7.0/gems/nokogiri-1.11.0/**",
               "vendor/bundle/ruby/2.7.0/extensions/x86_64-linux/2.7.0/nokogiri-1.11.0/**",
               "!vendor/bundle/ruby/2.7.0/gems/nokogiri-1.11.0/.git/**",
               "!vendor/bundle/ruby/2.7.0/gems/nokogiri-1.11.0/test/**",
               "!vendor/bundle/ruby/2.7.0/gems/nokogiri-1.11.0/spec/**",
               "vendor/bundle/ruby/2.7.0/specifications/nokogiri-1.11.0.gemspec" >>,
            RuleOutput)

\* A run of scenario A returned.
C6_Witness == Completed /\ ScenarioA

\* C7: the rules of a completed run begin with `**`, which occurs once, and
\* every package's include rule strictly precedes its negated .git, test and
\* spec rules.
C7_ExcludeAllThenIncludeBeforeNegated ==
  Completed =>
    LET out == RuleOutput
        root == gemRoot
    IN  /\ out[1] = "**"
        /\ \A i \in 2..Len(out) : out[i] # "**"
        /\ \A k \in 1..Len(gems) :
             LET inc == root \o gems[k].path \o "/**"
                 git == "!" \o root \o gems[k].path \o "/.git/**"
                 negated == { git,
                              "!" \o root \o gems[k].path \o "/test/**",
                              "!" \o root \o gems[k].path \o "/spec/**" }
             IN  /\ Has(out, inc)
                 /\ Has(out, git)
                 /\ \A i, j \in 1..Len(out) :
                      (out[i] = inc /\ out[j] \in negated) => i < j

\* A run over two packages with test exclusion returned.
C7_Witness == Completed /\ Len(gems) = 2 /\ Config.excludeGemTests

\* C8: standalone rules hold the bundler directory rule and neither
\* .bundle/config nor any gemspec; non-standalone rules hold .bundle/config and
\* every package's gemspec and not the bundler directory rule.
C8_StandaloneExclusive ==
  Completed =>
    LET out == Appended
        root == gemRoot
    IN  IF Config.standalone
        THEN /\ Has(out, "vendor/bundle/bundler/**")
             /\ ~Has(out, ".bundle/config")
             /\ \A k \in 1..Len(gems) : ~Has(out, root \o gems[k].gemspec)
        ELSE /\ Has(out, ".bundle/config")
             /\ ~Has(out, "vendor/bundle/bundler/**")
             /\ \A k \in 1..Len(gems) : Has(out, root \o gems[k].gemspec)

\* A standalone run over a non-empty inventory returned.
C8_Witness == Completed /\ Config.standalone /\ gems # <<>>

----------------------------------------------------------------------------
(* C9, C10: when the sandbox build runs, and what a failed teardown does *)

\* nativeLinuxBundle was entered by this invocation.
SandboxInvoked == Has(log, "Building gems with native extensions for linux")

\* C9 as stated: a run invokes the sandbox build exactly when the effective
\* alwaysCrossCompileExtensions is true.
C9_SandboxIffCrossCompile_AsStated ==
  Ended => (SandboxInvoked <=> Config.alwaysCrossCompileExtensions)

\* C9 as amended: a run that collected its inventory invokes the sandbox build
\* exactly when the effective alwaysCrossCompileExtensions is true, whatever
\* the inventory; while it is false no docker command is issued, and
\* CROSS_COMPILE_EXTENSIONS=no over the default true makes it false.
C9_SandboxIffCrossCompile ==
  LET always == Config.alwaysCrossCompileExtensions
      invoked == SandboxInvoked
  IN  /\ (Ended /\ ~InventoryFailed) => (invoked <=> always)
      /\ invoked <=> (cmds # <<>> \/ pc = "create")
      /\ ~always => (cmds = <<>> /\ ~invoked)
      /\ ( /\ "CROSS_COMPILE_EXTENSIONS" \in DOMAIN env
           /\ env["CROSS_COMPILE_EXTENSIONS"] = <<"n", "o">>
           /\ "alwaysCrossCompileExtensions" \notin DOMAIN custom )
         => (~always /\ cmds = <<>>)

\* The sandbox build ran to the end for an inventory without native extensions.
C9_Witness ==
  /\ Completed
  /\ gems = <<Rake>>
  /\ Config.alwaysCrossCompileExtensions
  /\ cmds # <<>>
  /\ cmds[Len(cmds)] = RmCmd

\* C10: when every docker command of the try block succeeded and only docker rm
\* fails, the sandbox build returns normally and the run emits its rules.
C10_TeardownFailureDoesNotAbort ==
  (Ended /\ cmds # <<>> /\ pending = "none") =>
    /\ thrown = "none"
    /\ \A k \in 1..Len(gems) : Has(Appended, gemRoot \o gems[k].path \o "/**")

----------------------------------------------------------------------------
(* C11: determinism of the emitted rules *)

\* The position of the first occurrence of x in seq (0 if there is none).
IndexOf(seq, x) ==
  IF Has(seq, x) THEN CHOOSE i \in 1..Len(seq) : seq[i] = x /\ \A j \in 1..(i - 1) : seq[j] # x
  ELSE 0

\* C11: an invocation that returns after an invocation that returned, with the
\* same runtime, inventory and configuration, emits the same ordered rules;
\* and the rule blocks of the packages follow the order of the inventory.
C11_SameRulesEveryRun ==
  Completed =>
    LET out == RuleOutput
        root == gemRoot
    IN  /\ prevRules # <<>> => out = prevRules[1]
        /\ \A k \in 1..(Len(gems) - 1) :
             /\ IndexOf(out, root \o gems[k].path \o "/**") > 0
             /\ IndexOf(out, "!" \o root \o gems[k].path \o "/.git/**")
                  < IndexOf(out, root \o gems[k + 1].path \o "/**")

\* Two invocations in a row returned, over two packages.
C11_Witness == Completed /\ prevRules # <<>> /\ Len(gems) = 2

----------------------------------------------------------------------------
(* C12: the effective alwaysCrossCompileExtensions *)

\* The effective value when the accepted words of the override are `words`.
EffectiveCrossCompile(words) ==
  IF "CROSS_COMPILE_EXTENSIONS" \in DOMAIN env
  THEN \E w \in words : env["CROSS_COMPILE_EXTENSIONS"] \in Spellings(w)
  ELSE IF "alwaysCrossCompileExtensions" \in DOMAIN custom
       THEN custom.alwaysCrossCompileExtensions
       ELSE TRUE

\* The effective value is `expected`, in the configuration and in what the run does.
CrossCompileIs(expected) ==
  /\ Config.alwaysCrossCompileExtensions = expected
  /\ (Ended /\ ~InventoryFailed) => (SandboxInvoked <=> expected)

\* C12 as stated: when CROSS_COMPILE_EXTENSIONS is set the effective value is
\* true exactly when it is yes, true, 1 or on in any case; when unset it is the
\* user's value, else true.
C12_OverrideWords_AsStated ==
  CrossCompileIs(EffectiveCrossCompile(
    { <<"y","e","s">>, <<"t","r","u","e">>, <<"1">>, <<"o","n">> }))

\* C12 as amended: when CROSS_COMPILE_EXTENSIONS is set the effective value is
\* true exactly when it is y, yes, true, 1 or on in any case; when unset it is
\* the user's value, else true.
C12_OverrideWords ==
  CrossCompileIs(EffectiveCrossCompile(
    { <<"y">>, <<"y","e","s">>, <<"t","r","u","e">>, <<"1">>, <<"o","n">> }))

\* The override YES won over the user's false and the sandbox build ran.
C12_Witness ==
  /\ "CROSS_COMPILE_EXTENSIONS" \in DOMAIN env
  /\ env["CROSS_COMPILE_EXTENSIONS"] = <<"Y","E","S">>
  /\ "alwaysCrossCompileExtensions" \in DOMAIN custom
  /\ ~custom.alwaysCrossCompileExtensions
  /\ Completed
  /\ SandboxInvoked

----------------------------------------------------------------------------
(* C13: the runtime profile *)

\* The triple (package version, extension API version, sandbox image) of a
\* runtime identifier.
ProfileOf(id) ==
  IF id = "ruby2.5"
  THEN <<"2.5.0", "2.5.0-static", "lambci/lambda:build-ruby2.5">>
  ELSE <<"2.7.0", "2.7.0", "lambci/lambda:build-ruby2.7">>

\* C13: the profile is a function of the runtime identifier alone: ruby2.5
\* gives (2.5.0, 2.5.0-static, lambci/lambda:build-ruby2.5), every other
\* identifier the default (2.7.0, 2.7.0, lambci/lambda:build-ruby2.7); the
\* container description resolved for a build, the create command and the
\* emitted rules of every run carry that triple.
C13_ProfileOfRuntime ==
  LET profile == ProfileOf(runtime)
      root == "vendor/bundle/ruby/" \o profile[1]
  IN  /\ <<rubyVersion, extensionApiVersion>> = <<profile[1], profile[2]>>
      /\ pc = "create" => tempContainer.image = profile[3]
      /\ cmds # <<>> =>
           cmds[1] = "docker create -v /var/task --name serverless-ruby-package.packaged-gems "
                       \o profile[3] \o " /bin/true"
      /\ Completed =>
           \A k \in 1..Len(gems) :
             /\ Has(include, root \o gems[k].path \o "/**")
             /\ gems[k].extensions =>
                  Has(include, root \o "/extensions/x86_64-linux/" \o profile[2]
                                 \o "/" \o gems[k].name \o "/**")

\* A run with an unknown runtime identifier built in the sandbox and returned.
C13_Witness ==
  /\ runtime = "ruby3.2"
  /\ Completed
  /\ cmds # <<>>
  /\ \E k \in 1..Len(gems) : gems[k].extensions

----------------------------------------------------------------------------
(* C14: concurrent runs with one container name *)

\* C14: a run removes only a container it created itself, and a run whose
\* creation failed removes nothing.
C14_RemovesOnlyOwnContainer ==
  LET create == CreateCmd IN
  \A r \in 1..Racers :
    /\ racers[r].removed \in {0, r}
    /\ racers[r].pending = create => racers[r].removed = 0

----------------------------------------------------------------------------
(* C15: the order of the sandbox build *)

\* The stage a command belongs to: 1 provision, 2 stage the sources,
\* 3 configure, 4 install, 5 retrieve the artifacts, 6 tear down.
StageOf(command, create, install) ==
  IF command = create THEN 1
  ELSE IF command \in Staging THEN 2
  ELSE IF command = install THEN 4
  ELSE IF command \in {RetrieveVendor, RetrieveBundle} THEN 5
  ELSE IF command = Teardown THEN 6
  ELSE 3

\* C15: the commands of a sandbox build go through the stages in order; the
\* first failing command is the last one before the teardown; artifacts are
\* copied back only after the installer succeeded, the dependency directory
\* before the bundle configuration directory, and the latter exactly when
\* standalone is false.
C15_LinearOrder ==
  LET create == Provision
      install == Install
      n == Len(cmds)
      stage == [i \in 1..n |-> StageOf(cmds[i], create, install)]
      work == IF n > 0 /\ cmds[n] = Teardown THEN n - 1 ELSE n
      standalone == Config.standalone
  IN  /\ n > 0 => cmds[1] = create
      /\ \A i \in 2..n :
           /\ stage[i - 1] <= stage[i]
           /\ cmds[i - 1] # cmds[i]
           /\ cmds[i] = install => stage[i - 1] = 3
           /\ cmds[i] = RetrieveVendor => cmds[i - 1] = install
           /\ cmds[i] = RetrieveBundle => cmds[i - 1] = RetrieveVendor
      /\ pending # "none" => work > 0 /\ cmds[work] = pending
      /\ \A i \in 1..(work - 1) : cmds[i] # pending
      /\ copied \in {<<>>, <<"vendor">>, <<"vendor", ".bundle">>}
      /\ Has(copied, "vendor") => Has(cmds, RetrieveVendor) /\ pending # RetrieveVendor
      /\ Has(copied, ".bundle") => Has(cmds, RetrieveBundle) /\ pending # RetrieveBundle
      /\ Has(cmds, RetrieveVendor) => Has(cmds, install) /\ pending # install
      /\ Has(cmds, RetrieveBundle) => ~standalone
      /\ (Ended /\ pending = "none" /\ n > 0) =>
           /\ Has(copied, "vendor")
           /\ Has(copied, ".bundle") <=> ~standalone

\* The installer failed in a build that would have copied both directories
\* back, and nothing was copied.
C15_Witness ==
  /\ Ended
  /\ pending = Install
  /\ ~Config.standalone
  /\ copied = <<>>
  /\ ~Has(cmds, RetrieveVendor)

----------------------------------------------------------------------------
(* C16: the configuration commands *)

SetLocal(key, value) == InSandbox(" bundle config set --local " \o key \o " '" \o value \o "'")

\* C16: when the installer is run, the path, deployment, frozen and clean
\* commands were issued before it and succeeded; the with, without and
\* standalone commands were issued, before it, exactly when the option is set;
\* and no other configuration command was issued.
C16_ConfiguredBeforeInstall ==
  LET install == Install
      at == IndexOf(cmds, install)
      config == Config
      before == SubSeq(cmds, 1, at - 1)
      always == { SetLocal("path", "vendor/bundle"), SetLocal("deployment", "true"),
                  SetLocal("frozen", "true"), SetLocal("clean", "true") }
      with == SetLocal("with", config.withGroups)
      without == SetLocal("without", config.withoutGroups)
      standalone == SetLocal("standalone", "true")
      optional == (IF config.withGroups # "" THEN {with} ELSE {})
                    \cup (IF config.withoutGroups # "" THEN {without} ELSE {})
                    \cup (IF config.standalone THEN {standalone} ELSE {})
      issued == { before[i] : i \in 1..Len(before) } \ (Staging \cup {Provision})
  IN  at > 0 =>
        /\ issued = always \cup optional
        /\ Len(before) = Cardinality(issued) + Cardinality({ c \in Staging : Has(before, c) }) + 1
        /\ pending \notin issued
        /\ \A i \in (at + 1)..Len(cmds) : cmds[i] \notin always \cup {with, without, standalone}

\* The installer ran in a build with groups to install and in standalone mode.
C16_Witness ==
  /\ Has(cmds, Install)
  /\ Config.withGroups # ""
  /\ Config.withoutGroups = ""
  /\ Config.standalone
  /\ pending = "none"

----------------------------------------------------------------------------
(* C17: the rules of one package *)

\* How many rules a package has: its include, the .git exclusion, the two test
\* exclusions, the extension include, the manifest include.
RuleCount(gem, tests, standalone) ==
  2 + (IF tests THEN 2 ELSE 0) + (IF gem.extensions THEN 1 ELSE 0)
    + (IF standalone THEN 0 ELSE 1)

RECURSIVE RuleCounts(_, _, _)
RuleCounts(g, tests, standalone) ==
  IF g = <<>> THEN 0
  ELSE RuleCount(Head(g), tests, standalone) + RuleCounts(Tail(g), tests, standalone)

\* C17: a completed run emits, for every package, the .git exclusion always,
\* the test and spec exclusions exactly when excludeGemTests is true, and the
\* extension include exactly when the package has native extensions; together
\* with the package include and the manifest include (non-standalone) these
\* are all the rules of the packages.
C17_PerPackageRules ==
  Completed =>
    LET out == Appended
        config == Config
        root == "vendor/bundle/ruby/" \o (IF runtime = "ruby2.5" THEN "2.5.0" ELSE "2.7.0")
        extRoot == root \o "/extensions/x86_64-linux/"
                     \o (IF runtime = "ruby2.5" THEN "2.5.0-static" ELSE "2.7.0")
    IN  /\ \A k \in 1..Len(gems) :
             LET gem == gems[k] IN
             /\ Has(out, root \o gem.path \o "/**")
             /\ Has(out, "!" \o root \o gem.path \o "/.git/**")
             /\ Has(out, "!" \o root \o gem.path \o "/test/**") <=> config.excludeGemTests
             /\ Has(out, "!" \o root \o gem.path \o "/spec/**") <=> config.excludeGemTests
             /\ Has(out, extRoot \o "/" \o gem.name \o "/**") <=> gem.extensions
             /\ Has(out, root \o gem.gemspec) <=> ~config.standalone
        /\ Len(out) = 1 + RuleCounts(gems, config.excludeGemTests, config.standalone)

\* A run returned with tests kept, for a package with extensions and one without.
C17_Witness ==
  /\ Completed
  /\ ~Config.excludeGemTests
  /\ \E k \in 1..Len(gems) : gems[k].extensions
  /\ \E k \in 1..Len(gems) : ~gems[k].extensions

----------------------------------------------------------------------------
(* C18: the host's package object across invocations *)

RECURSIVE Copies(_, _)
Copies(n, seq) == IF n = 0 THEN <<>> ELSE seq \o Copies(n - 1, seq)

\* C18: an invocation never removes or reorders what the include list held
\* when it began; after n invocations that all returned, the include list is
\* the host's list followed by n copies of the run's rules, the exclude list
\* is ["**"] and excludeDevDependencies is false.
C18_AppendOnly ==
  /\ Len(include0) <= Len(include)
  /\ SubSeq(include, 1, Len(include0)) = include0
  /\ (Completed /\ completed = runs - 1) =>
       /\ include = <<"handler.rb">> \o Copies(runs, Appended)
       /\ exclude = <<"**">>
       /\ excludeDevDependencies = FALSE

\* The second of two invocations that both returned, with a package to emit.
C18_Witness ==
  /\ Completed
  /\ runs = 2
  /\ completed = 1
  /\ gems # <<>>

----------------------------------------------------------------------------
(* C19: unsupported provider or runtime *)

ProviderWarning ==
  "WARNING: serverless-ruby-package has only been tested with the AWS provider. It may not work with "
    \o provider \o ", but bug reports are welcome."

RuntimeWarning ==
  "WARNING: serverless-ruby-package has only been tested with the ruby2.5 and the ruby2.7 runtimes. It may not work with "
    \o runtime \o ", but bug reports are welcome."

\* C19: an invocation has logged a warning exactly when the provider is not aws
\* or the runtime is neither ruby2.5 nor ruby2.7; no error it ends with is the
\* warning; and when it returns it has collected the inventory and emitted the
\* rules of the profile the runtime resolves to.
C19_WarningNotFatal ==
  runs > 0 =>
    LET warned == Has(log, ProviderWarning) \/ Has(log, RuntimeWarning)
        root == "vendor/bundle/ruby/" \o ProfileOf(runtime)[1]
    IN  /\ warned <=> (provider # "aws" \/ runtime \notin {"ruby2.5", "ruby2.7"})
        /\ thrown \in {"none", "bundle exec ruby", "JSON.parse"} \/ Has(cmds, thrown)
        /\ Completed =>
             /\ gems = lockedGems
             /\ \A k \in 1..Len(gems) : Has(Appended, root \o gems[k].path \o "/**")

\* A run for another provider and an unknown runtime returned with rules.
C19_Witness ==
  /\ provider = "google"
  /\ runtime = "ruby3.2"
  /\ Completed
  /\ gems # <<>>
  /\ Has(log, ProviderWarning)

----------------------------------------------------------------------------
(* C20: the container description *)

\* C20: once an invocation has called tempContainer, the configuration holds
\* the container description the call stored, so that later calls return it;
\* and the image of the description is the configured one if there is one,
\* else the one of the runtime.
C20_ContainerCachedAfterFirstCall ==
  SandboxInvoked =>
    /\ ContainerCached
    /\ tempContainer.image =
         IF "dockerImage" \in DOMAIN custom THEN custom.dockerImage ELSE BuildImage

====
